---- MODULE Spec2Model ----
(***************************************************************************)
(* Model of src/fetch_dataPdf.py: the four extraction helpers and the      *)
(* script run main() performs on an uploaded PDF.                          *)
(*                                                                         *)
(* A Python str is a sequence of one-character strings.  A Python value of *)
(* a variable that may be a str or None is a record [t, v].  An upload is  *)
(* [pdf, pages]; a page is [text, images, tables, damaged]; an embedded    *)
(* image is its colour mode; a detected table is [rows, cols, cells].      *)
(***************************************************************************)
EXTENDS Integers, Sequences, FiniteSets, TLC

\* ------------------------------------------------------------------ bounds
MaxPages == 2
MaxRuns == 2
MaxRows == 2
MaxCols == 2
MaxTabs == 2

\* ----------------------------------------------------------- Python values
PyNone == [t |-> "None", v |-> <<>>]
PyStr(s) == [t |-> "str", v |-> s]
EmptyStr == PyStr(<<>>)

\* bool(x) of a str-or-None value: `if text:`, `if summary:`, `if cohere_api_key:`
Truthy(x) == x.t = "str" /\ x.v # <<>>

IsSpace(ch) == ch \in {" ", "\n", "\t", "\r"}

RECURSIVE LStrip(_)
LStrip(s) == IF s # <<>> /\ IsSpace(Head(s)) THEN LStrip(Tail(s)) ELSE s

RECURSIVE RStrip(_)
RStrip(s) ==
  IF s # <<>> /\ IsSpace(s[Len(s)]) THEN RStrip(SubSeq(s, 1, Len(s) - 1)) ELSE s

\* str.strip()
Strip(s) == RStrip(LStrip(s))

\* ------------------------------------------------- the uploaded file object
\* An upload is [pdf, pages]: pdf says whether the bytes are a PDF at all.
\* Its bytes are a header followed by the pages, so its size is positive.
FileSize(doc) == Len(doc.pages) + 1

\* pdf_file.read(): the bytes from the cursor to the end.  The stream is the
\* whole upload exactly when the cursor stood at 0.
FileRead(doc, pos) ==
  [complete |-> (pos = 0), start |-> pos, nbytes |-> FileSize(doc) - pos, doc |-> doc]

\* uploaded_file.seek(0): the position the cursor takes
Seek(pos) == pos

\* fitz.open(stream=..., filetype="pdf") raises on bytes that are no PDF and
\* on a truncated or empty stream.
OpenRaises(stream) == ~stream.complete \/ ~stream.doc.pdf

\* ----------------------------------------------------- extract_text_from_pdf
\* Lines 17-19 from page p on, text being what the earlier pages gave.
\* page.get_text() raises on a damaged page.
RECURSIVE TextLoop(_, _, _)
TextLoop(pages, p, text) ==
  IF p > Len(pages) THEN [acc |-> text, raised |-> FALSE]
  ELSE IF pages[p].damaged THEN [acc |-> text, raised |-> TRUE]
  ELSE TextLoop(pages, p + 1, text \o pages[p].text)

TextOnFailurePartial(partial) == PyStr(partial)
\* line 23
TextOnFailure(partial) == PyNone

extract_text_from_pdf(stream) ==
  IF OpenRaises(stream)
    THEN [ret |-> TextOnFailure(<<>>), err |-> TRUE, partial |-> <<>>]
    ELSE LET r == TextLoop(stream.doc.pages, 1, <<>>) IN
         IF r.raised
           THEN [ret |-> TextOnFailure(r.acc), err |-> TRUE, partial |-> r.acc]
           ELSE [ret |-> PyStr(r.acc), err |-> FALSE, partial |-> <<>>]

\* --------------------------------------------------- extract_images_from_pdf
\* Lines 34-41 for the images of page p from index k on.  An image whose
\* bytes cannot be decoded ("bad") makes extract_image / Image.open raise.
RECURSIVE ImageLoop(_, _, _, _)
ImageLoop(image_list, p, k, images) ==
  IF k > Len(image_list) THEN [acc |-> images, raised |-> FALSE]
  ELSE IF image_list[k] = "bad" THEN [acc |-> images, raised |-> TRUE]
  ELSE ImageLoop(image_list, p, k + 1,
                 Append(images, [page |-> p, index |-> k, image |-> image_list[k]]))

\* Lines 30-41 from page p on.  page.get_images() raises on a damaged page.
RECURSIVE ImagePages(_, _, _)
ImagePages(pages, p, images) ==
  IF p > Len(pages) THEN [acc |-> images, raised |-> FALSE]
  ELSE IF pages[p].damaged THEN [acc |-> images, raised |-> TRUE]
  ELSE LET r == ImageLoop(pages[p].images, p, 1, images) IN
       IF r.raised THEN r ELSE ImagePages(pages, p + 1, r.acc)

\* line 46
ImagesOnFailure(partial) == <<>>

extract_images_from_pdf(stream) ==
  IF OpenRaises(stream)
    THEN [ret |-> ImagesOnFailure(<<>>), err |-> TRUE, partial |-> <<>>]
    ELSE LET r == ImagePages(stream.doc.pages, 1, <<>>) IN
         IF r.raised
           THEN [ret |-> ImagesOnFailure(r.acc), err |-> TRUE, partial |-> r.acc]
           ELSE [ret |-> r.acc, err |-> FALSE, partial |-> <<>>]

\* ------------------------------------------- extract_tables_from_pdf_pymupdf
DigitChar == <<"1", "2", "3", "4", "5", "6", "7", "8", "9">>

\* f"Column {i+1}" for the 0-based i of the comprehension
GenericName(i) == <<"C", "o", "l", "u", "m", "n", " ", DigitChar[i + 1]>>

\* rows_data: table.cell(row, col).text for every row and column
RowsData(table) ==
  [r \in 1..table.rows |-> [c \in 1..table.cols |-> table.cells[r][c]]]

HeaderUsableAny(row) == \E c \in 1..Len(row) : row[c] # <<>> /\ Strip(row[c]) # <<>>
\* all(cell and cell.strip() for cell in rows_data[0])
HeaderUsable(row) == \A c \in 1..Len(row) : row[c] # <<>> /\ Strip(row[c]) # <<>>

\* the dataframe of lines 69-76
DataFrame(rows_data) ==
  IF HeaderUsable(rows_data[1])
    THEN [columns |-> rows_data[1], data |-> Tail(rows_data)]
    ELSE [columns |-> [c \in 1..Len(rows_data[1]) |-> GenericName(c - 1)],
          data |-> rows_data]

TableIndexLeaked(i, rows_data) ==
  IF HeaderUsable(rows_data[1]) THEN i ELSE Len(rows_data[1]) - 1
\* The value of i at line 80, for the table at 0-based position i of the page.
\* A Python 3 comprehension has its own scope, so line 75 leaves i alone.
TableIndex(i, rows_data) == i

\* Lines 58-82 for the tables of page p from position k on.
RECURSIVE TableLoop(_, _, _, _)
TableLoop(tabs, p, k, tables) ==
  IF k > Len(tabs) THEN tables
  ELSE LET rows_data == RowsData(tabs[k]) IN
       TableLoop(tabs, p, k + 1,
         IF Len(rows_data) > 0
           THEN Append(tables, [page |-> p,
                                table_number |-> TableIndex(k - 1, rows_data) + 1,
                                dataframe |-> DataFrame(rows_data)])
           ELSE tables)

\* Lines 53-82 from page p on.  page.find_tables() raises on a damaged page.
RECURSIVE TablePages(_, _, _)
TablePages(pages, p, tables) ==
  IF p > Len(pages) THEN [acc |-> tables, raised |-> FALSE]
  ELSE IF pages[p].damaged THEN [acc |-> tables, raised |-> TRUE]
  ELSE TablePages(pages, p + 1, TableLoop(pages[p].tables, p, 1, tables))

\* line 87
TablesOnFailure(partial) == <<>>

extract_tables_from_pdf_pymupdf(stream) ==
  IF OpenRaises(stream)
    THEN [ret |-> TablesOnFailure(<<>>), err |-> TRUE, partial |-> <<>>]
    ELSE LET r == TablePages(stream.doc.pages, 1, <<>>) IN
         IF r.raised
           THEN [ret |-> TablesOnFailure(r.acc), err |-> TRUE, partial |-> r.acc]
           ELSE [ret |-> r.acc, err |-> FALSE, partial |-> <<>>]

\* --------------------------------------------------------- get_cohere_summary
\* co.summarize(...) is the one outbound request.  Its outcome is the
\* service's: a summary, an empty summary, or an exception (bad key, network).
ApiOutcomes == {"summary", "empty", "raise"}

get_cohere_summary(text, api_key, outcome) ==
  IF outcome = "raise" THEN [ret |-> PyNone, err |-> TRUE]
  ELSE IF outcome = "empty" THEN [ret |-> EmptyStr, err |-> FALSE]
  ELSE [ret |-> PyStr(<<"s">>), err |-> FALSE]

\* ------------------------------------------------- df.to_csv(index=False)
\* csv.writer with QUOTE_MINIMAL: a field is quoted when it holds the
\* delimiter, the quote character or a line break, and a quote inside it is
\* doubled.  A row that is one empty field is written as "".
NeedsQuote(f) == \E i \in 1..Len(f) : f[i] \in {",", "\"", "\n", "\r"}

RECURSIVE DoubleQuotes(_)
DoubleQuotes(f) ==
  IF f = <<>> THEN <<>>
  ELSE (IF Head(f) = "\"" THEN <<"\"", "\"">> ELSE <<Head(f)>>) \o DoubleQuotes(Tail(f))

CsvField(f, alone) ==
  IF NeedsQuote(f) \/ (alone /\ f = <<>>)
    THEN <<"\"">> \o DoubleQuotes(f) \o <<"\"">>
    ELSE f

RECURSIVE CsvJoin(_, _)
CsvJoin(row, k) ==
  IF k > Len(row) THEN <<>>
  ELSE (IF k > 1 THEN <<",">> ELSE <<>>) \o CsvField(row[k], Len(row) = 1)
       \o CsvJoin(row, k + 1)

CsvLine(row) == CsvJoin(row, 1) \o <<"\n">>

RECURSIVE CsvLines(_)
CsvLines(rows) == IF rows = <<>> THEN <<>> ELSE CsvLine(Head(rows)) \o CsvLines(Tail(rows))

\* the row labels pandas writes when index is not False: 0, 1, 2, ...
IndexLabel(r) == <<IF r = 0 THEN "0" ELSE DigitChar[r]>>

to_csv(df, index) ==
  IF index
    THEN CsvLines(<<<< <<>> >> \o df.columns>> \o
                  [r \in 1..Len(df.data) |-> <<IndexLabel(r - 1)>> \o df.data[r]])
    ELSE CsvLines(<<df.columns>> \o df.data)

TableCsvWithIndex(df) == to_csv(df, TRUE)
\* line 166: df.to_csv(index=False)
TableCsv(df) == to_csv(df, FALSE)

\* A lone surrogate code point cannot be encoded: .encode('utf-8') raises.
Surrogate == "U+D800"

EncodeRaises(s) == \E i \in 1..Len(s) : s[i] = Surrogate

\* img.save(buf, format="PNG"): Pillow cannot write a CMYK image as PNG.
PngSaveRaises(mode) == mode = "CMYK"

\* ------------------------------------------------------------ the display
\* What a run has put on the page, in order: [tab, kind, data].
Widget(tab, kind, data) == [tab |-> tab, kind |-> kind, data |-> data]

\* st.error of the except clauses (lines 22, 45, 86, 102)
ErrorWidgets(tab, r) == IF r.err THEN <<Widget(tab, "error", "exception")>> ELSE <<>>

\* lines 125-127
TextWidgets(text) ==
  IF Truthy(text)
    THEN <<Widget("Text", "text_area", text.v), Widget("Text", "download", text.v)>>
    ELSE <<>>

\* Lines 135-148 from image k on: st.image, then img.save, then the button.
\* An exception of img.save is not caught: it leaves main.
RECURSIVE ImageWidgets(_, _)
ImageWidgets(images, k) ==
  IF k > Len(images) THEN [w |-> <<>>, crashed |-> FALSE]
  ELSE LET name == [page |-> images[k].page, index |-> images[k].index] IN
       IF PngSaveRaises(images[k].image)
         THEN [w |-> <<Widget("Images", "image", name)>>, crashed |-> TRUE]
         ELSE LET rest == ImageWidgets(images, k + 1) IN
              [w |-> <<Widget("Images", "image", name),
                       Widget("Images", "download", name)>> \o rest.w,
               crashed |-> rest.crashed]

ImagesTabNoElse(images) == ImageWidgets(images, 1)
\* lines 133-150
ImagesTab(images) ==
  IF images # <<>>
    THEN ImageWidgets(images, 1)
    ELSE [w |-> <<Widget("Images", "info", "No images found in the PDF.")>>,
          crashed |-> FALSE]

\* Lines 157-172 from table k on: subheader, st.dataframe, to_csv().encode,
\* then the button.  An exception of the encoding is not caught.
RECURSIVE TableWidgets(_, _)
TableWidgets(tables, k) ==
  IF k > Len(tables) THEN [w |-> <<>>, crashed |-> FALSE]
  ELSE LET id == [page |-> tables[k].page, table |-> tables[k].table_number]
           df == tables[k].dataframe
           csv == TableCsv(df)
           head == <<Widget("Tables", "subheader", id), Widget("Tables", "dataframe", df)>>
       IN IF EncodeRaises(csv)
            THEN [w |-> head, crashed |-> TRUE]
            ELSE LET rest == TableWidgets(tables, k + 1) IN
                 [w |-> head \o <<[tab |-> "Tables", kind |-> "download", data |-> csv,
                                   label |-> id, file_name |-> id]>> \o rest.w,
                  crashed |-> rest.crashed]

\* lines 156-175
TablesTab(tables) ==
  IF tables # <<>> /\ Len(tables) > 0
    THEN TableWidgets(tables, 1)
    ELSE [w |-> <<Widget("Tables", "info", "No tables found in the PDF."),
                  Widget("Tables", "write", "alternative methods")>>,
          crashed |-> FALSE]

CallsApiAlways(text) == TRUE
\* line 182: `if text:` guards the call of get_cohere_summary
CallsApi(text) == Truthy(text)

\* line 185: `if summary:`
ShowsSummary(summary) == Truthy(summary)

\* line 179: `if cohere_api_key:`
CheckKey(key) == Truthy(key)

\* lines 186-187
SummaryWidgets(summary) ==
  IF ShowsSummary(summary.ret)
    THEN <<Widget("Summary", "write", summary.ret.v),
           Widget("Summary", "download", summary.ret.v)>>
    ELSE <<>>

NoSummary == [ret |-> PyNone, err |-> FALSE]

\* ------------------------------------------------------------------- state
VARIABLES
  doc,       \* the uploaded file's bytes, as the upload they encode
  apiKey,    \* cohere_api_key of the sidebar
  pc,        \* where the run of main stands
  run,       \* number of the run on this uploaded file object
  cursor,    \* read cursor of the uploaded file object
  rText,     \* what the last extract_text_from_pdf gave (ret is main's text)
  rImages,   \* what extract_images_from_pdf gave (ret is main's images)
  rTables,   \* what extract_tables_from_pdf_pymupdf gave (ret is main's tables)
  rSummary,  \* what get_cohere_summary gave (ret is main's summary)
  shown,     \* the display of the current run
  passes,    \* the extraction passes of the current run: [kind, start, nbytes]
  apiCalls   \* calls of get_cohere_summary in the current run

vars == <<doc, apiKey, pc, run, cursor, rText, rImages, rTables, rSummary,
          shown, passes, apiCalls>>

NoText == [ret |-> PyNone, err |-> FALSE, partial |-> <<>>]
NoList == [ret |-> <<>>, err |-> FALSE, partial |-> <<>>]

Keys == {EmptyStr, PyStr(<<"k">>)}

Pass(kind, stream) == [kind |-> kind, start |-> stream.start, nbytes |-> stream.nbytes]

\* --------------------------------------------------------------- uploads
Page(text, images, tables, damaged) ==
  [text |-> text, images |-> images, tables |-> tables, damaged |-> damaged]

Table(cells, cols) == [rows |-> Len(cells), cols |-> cols, cells |-> cells]

PlainTable == Table(<< << <<"a">> >>, << <<"b">> >> >>, 1)
SurrogateTable == Table(<< << <<"a">> >>, << <<Surrogate>> >> >>, 1)

\* The pages of the uploads main is run on: blank, text only, with an RGB
\* image, with an image and a table, with a CMYK image, with an undecodable
\* image, with a table, with a table holding a lone surrogate, and damaged.
PageKinds ==
  { Page(<<>>, <<>>, <<>>, FALSE),
    Page(<<"a">>, <<>>, <<>>, FALSE),
    Page(<<"a">>, <<"RGB">>, <<>>, FALSE),
    Page(<<"a">>, <<"RGB">>, <<PlainTable>>, FALSE),
    Page(<<>>, <<"RGB", "CMYK">>, <<>>, FALSE),
    Page(<<"a">>, <<"RGB", "bad">>, <<>>, FALSE),
    Page(<<"a">>, <<>>, <<PlainTable>>, FALSE),
    Page(<<>>, <<>>, <<PlainTable, SurrogateTable>>, FALSE),
    Page(<<"a">>, <<"RGB">>, <<PlainTable>>, TRUE) }

SeqsUpTo(S, n) == UNION {[1..k -> S] : k \in 0..n}

Pdf(pages) == [pdf |-> TRUE, pages |-> pages]
NotAPdf == [pdf |-> FALSE, pages |-> <<>>]

Uploads == {Pdf(ps) : ps \in SeqsUpTo(PageKinds, MaxPages)} \cup {NotAPdf}

\* Cell texts of detected tables: empty, blank, plain, and the texts a CSV
\* writer has to quote.
CellTexts == << <<>>, <<" ">>, <<"a">>, <<"b", ",">>, <<"\"", "\n">> >>
CellVals == {CellTexts[n] : n \in 1..Len(CellTexts)}

\* Grids of r rows and c columns: any first row, and each later row filled
\* with one cell text, the next of CellTexts from row to row.
Grids(r, c) ==
  {[i \in 1..r |->
      IF i = 1 THEN first
      ELSE [j \in 1..c |-> CellTexts[((n + i) % Len(CellTexts)) + 1]]] :
     first \in [1..c -> CellVals], n \in 1..Len(CellTexts)}

CellTables ==
  UNION {{Table(g, c) : g \in Grids(r, c)} : r \in 1..MaxRows, c \in 1..MaxCols}

\* Tables by shape: without rows, and with a first row that has blank cells.
ZeroRowTable == [rows |-> 0, cols |-> 1, cells |-> <<>>]
GenericTable == Table(<< << <<"a">>, <<>>, <<" ">> >>, << <<"a">>, <<"b">>, <<"a">> >> >>, 3)
ShapeTables == {ZeroRowTable, GenericTable}

TableUploads ==
  {Pdf(<<Page(<<"a">>, <<>>, <<t>>, FALSE)>>) : t \in CellTables}
  \cup
  {Pdf([p \in 1..Len(ts) |-> Page(<<"a">>, <<>>, ts[p], FALSE)]) :
     ts \in SeqsUpTo(SeqsUpTo(ShapeTables, MaxTabs), MaxPages)}

\* The locals and the display at the start of a run of main (lines 105-120),
\* on a freshly uploaded file.
FirstRun ==
  /\ apiKey \in Keys
  /\ pc = "tab1"
  /\ run = 1
  /\ cursor = 0
  /\ rText = NoText
  /\ rImages = NoList
  /\ rTables = NoList
  /\ rSummary = NoSummary
  /\ shown = <<>>
  /\ passes = <<>>
  /\ apiCalls = 0

Init == doc \in Uploads /\ FirstRun

InitTables == doc \in TableUploads /\ FirstRun

\* lines 122-127
TabText ==
  /\ pc = "tab1"
  /\ LET stream == FileRead(doc, cursor)
         r == extract_text_from_pdf(stream)
     IN /\ rText' = r
        /\ passes' = Append(passes, Pass("text", stream))
        /\ shown' = shown \o ErrorWidgets("Text", r) \o TextWidgets(r.ret)
  /\ cursor' = FileSize(doc)
  /\ pc' = "tab2"
  /\ UNCHANGED <<doc, apiKey, run, rImages, rTables, rSummary, apiCalls>>

\* lines 129-150
TabImages ==
  /\ pc = "tab2"
  /\ LET stream == FileRead(doc, Seek(0))
         r == extract_images_from_pdf(stream)
         tab == ImagesTab(r.ret)
     IN /\ rImages' = r
        /\ passes' = Append(passes, Pass("images", stream))
        /\ shown' = shown \o ErrorWidgets("Images", r) \o tab.w
        /\ pc' = IF tab.crashed THEN "crashed" ELSE "tab3"
  /\ cursor' = FileSize(doc)
  /\ UNCHANGED <<doc, apiKey, run, rText, rTables, rSummary, apiCalls>>

\* lines 152-175
TabTables ==
  /\ pc = "tab3"
  /\ LET stream == FileRead(doc, Seek(0))
         r == extract_tables_from_pdf_pymupdf(stream)
         tab == TablesTab(r.ret)
     IN /\ rTables' = r
        /\ passes' = Append(passes, Pass("tables", stream))
        /\ shown' = shown \o ErrorWidgets("Tables", r) \o tab.w
        /\ pc' = IF tab.crashed THEN "crashed" ELSE "tab4"
  /\ cursor' = FileSize(doc)
  /\ UNCHANGED <<doc, apiKey, run, rText, rImages, rSummary, apiCalls>>

\* lines 177-189
TabSummary ==
  /\ pc = "tab4"
  /\ IF CheckKey(apiKey)
       THEN LET stream == FileRead(doc, Seek(0))
                r == extract_text_from_pdf(stream)
            IN /\ rText' = r
               /\ passes' = Append(passes, Pass("text", stream))
               /\ cursor' = FileSize(doc)
               /\ IF CallsApi(r.ret)
                    THEN \E outcome \in ApiOutcomes :
                           LET s == get_cohere_summary(r.ret, apiKey, outcome) IN
                           /\ rSummary' = s
                           /\ apiCalls' = apiCalls + 1
                           /\ shown' = shown \o ErrorWidgets("Summary", r)
                                             \o ErrorWidgets("Summary", s)
                                             \o SummaryWidgets(s)
                    ELSE /\ shown' = shown \o ErrorWidgets("Summary", r)
                         /\ UNCHANGED <<rSummary, apiCalls>>
       ELSE /\ shown' = Append(shown, Widget("Summary", "info", "Enter a Cohere API key"))
            /\ UNCHANGED <<rText, passes, cursor, rSummary, apiCalls>>
  /\ pc' = "done"
  /\ UNCHANGED <<doc, apiKey, run, rImages, rTables>>

\* The framework runs the script again (line 192) after an interaction, with
\* the same uploaded file object and whatever key the sidebar now holds.
Rerun ==
  /\ pc \in {"done", "crashed"}
  /\ run < MaxRuns
  /\ run' = run + 1
  /\ apiKey' \in Keys
  /\ pc' = "tab1"
  /\ rText' = NoText
  /\ rImages' = NoList
  /\ rTables' = NoList
  /\ rSummary' = NoSummary
  /\ shown' = <<>>
  /\ passes' = <<>>
  /\ apiCalls' = 0
  /\ UNCHANGED <<doc, cursor>>

Next == TabText \/ TabImages \/ TabTables \/ TabSummary \/ Rerun

Spec == Init /\ [][Next]_vars

SpecTables == InitTables /\ [][Next]_vars

\* ------------------------------------------------------ reading a CSV back
\* A CSV reader of the same dialect (comma, double quote, doubled quotes, line
\* breaks inside quotes): the rows of s from position i on, st being the
\* reader's state, field and row what it has of the current field and row.
RECURSIVE CsvRead(_, _, _, _, _, _)
CsvRead(s, i, st, field, row, rows) ==
  IF i > Len(s)
    THEN IF st = "start_record" THEN rows ELSE Append(rows, Append(row, field))
  ELSE
    LET ch == s[i] IN
    CASE st = "start_record" /\ ch = "\n" ->
           CsvRead(s, i + 1, "start_record", <<>>, <<>>, Append(rows, <<>>))
      [] st \in {"start_record", "start_field"} /\ ch = "\"" ->
           CsvRead(s, i + 1, "in_quoted", <<>>, row, rows)
      [] st \in {"start_record", "start_field"} /\ ch = "," ->
           CsvRead(s, i + 1, "start_field", <<>>, Append(row, <<>>), rows)
      [] st = "start_field" /\ ch = "\n" ->
           CsvRead(s, i + 1, "start_record", <<>>, <<>>, Append(rows, Append(row, <<>>)))
      [] st \in {"start_record", "start_field"} /\ ch \notin {"\n", "\"", ","} ->
           CsvRead(s, i + 1, "in_field", <<ch>>, row, rows)
      [] st \in {"in_field", "quote_in_quoted"} /\ ch = "," ->
           CsvRead(s, i + 1, "start_field", <<>>, Append(row, field), rows)
      [] st \in {"in_field", "quote_in_quoted"} /\ ch = "\n" ->
           CsvRead(s, i + 1, "start_record", <<>>, <<>>, Append(rows, Append(row, field)))
      [] st = "in_field" /\ ch \notin {",", "\n"} ->
           CsvRead(s, i + 1, "in_field", Append(field, ch), row, rows)
      [] st = "in_quoted" /\ ch = "\"" ->
           CsvRead(s, i + 1, "quote_in_quoted", field, row, rows)
      [] st = "in_quoted" /\ ch # "\"" ->
           CsvRead(s, i + 1, "in_quoted", Append(field, ch), row, rows)
      [] st = "quote_in_quoted" /\ ch = "\"" ->
           CsvRead(s, i + 1, "in_quoted", Append(field, ch), row, rows)
      [] st = "quote_in_quoted" /\ ch \notin {"\"", ",", "\n"} ->
           CsvRead(s, i + 1, "in_field", Append(field, ch), row, rows)

ParseCsv(s) == CsvRead(s, 1, "start_record", <<>>, <<>>, <<>>)

\* ------------------------------------------------------------------ claims
Ended == pc \in {"done", "crashed"}

InTab(tab, kind) == {k \in 1..Len(shown) : shown[k].tab = tab /\ shown[k].kind = kind}

\* C1: no exception of a library call leaves main: every run reaches the end
\* of main, never the state of an exception that propagated.
C1_NoExceptionLeavesMain == pc # "crashed"

\* C2 as stated: a failed extraction pass returns the empty result of its
\* kind, the empty string for the text pass and the empty list for the others.
C2_FailedPassReturnsEmptyOfKind ==
  /\ rText.err => rText.ret = EmptyStr
  /\ rImages.err => rImages.ret = <<>>
  /\ rTables.err => rTables.ret = <<>>

\* C2 as amended: a failed text pass returns None, a failed image or table
\* pass the empty list, and nothing of what the pass had accumulated.
C2_FailedPassReturnsNoneOrEmptyList ==
  /\ rText.err => rText.ret = PyNone
  /\ rImages.err => rImages.ret = <<>>
  /\ rTables.err => rTables.ret = <<>>

C2_AllPassesFailedMidway ==
  /\ rText.err /\ rText.partial # <<>>
  /\ rImages.err /\ rImages.partial # <<>>
  /\ rTables.err /\ rTables.partial # <<>>

\* C3: a run with an empty API key never calls get_cohere_summary and ends
\* with the prompt for a key shown in the Summary tab.
C3_NoKeyNoCallAndPrompt ==
  (Ended /\ ~Truthy(apiKey)) =>
    (apiCalls = 0 /\ InTab("Summary", "info") # {})

\* C4: get_cohere_summary is called at most once per run, only with a
\* non-empty key and a non-empty text of the Summary tab's pass, and a failed
\* call shows no summary and no summary download button.
C4_ApiCallGuarded ==
  /\ apiCalls <= 1
  /\ apiCalls = 1 => (pc = "done" /\ Truthy(apiKey) /\ Truthy(rText.ret))
  /\ (pc = "done" /\ Truthy(apiKey) /\ ~Truthy(rText.ret)) => apiCalls = 0
  /\ rSummary.err =>
       (InTab("Summary", "write") = {} /\ InTab("Summary", "download") = {})

C4_CallFailed == apiCalls = 1 /\ rSummary.err /\ pc = "done"

NoImageListed == \A p \in 1..Len(doc.pages) : doc.pages[p].images = <<>>

\* C5: for a PDF no page of which lists an image, extract_images_from_pdf
\* returns the empty list and the Images tab shows the "No images found"
\* message and no image and no download button.
C5_NoImagesMessage ==
  (pc \notin {"tab1", "tab2"} /\ doc.pdf /\ NoImageListed) =>
    /\ rImages.ret = <<>>
    /\ InTab("Images", "info") # {}
    /\ InTab("Images", "image") = {}
    /\ InTab("Images", "download") = {}

C5_ImagelessPdfRendered ==
  /\ pc = "tab3" /\ doc.pdf /\ Len(doc.pages) > 0 /\ NoImageListed
  /\ ~rImages.err
  /\ InTab("Images", "info") # {}

NoTableDetected == \A p \in 1..Len(doc.pages) : doc.pages[p].tables = <<>>

\* C6: for a PDF no page of which has a detectable table, the run ends with
\* the empty table list and the fallback message in the Tables tab, and no
\* table and no CSV download button there.
C6_NoTablesMessage ==
  (Ended /\ doc.pdf /\ NoTableDetected) =>
    /\ rTables.ret = <<>>
    /\ InTab("Tables", "info") # {}
    /\ InTab("Tables", "dataframe") = {}
    /\ InTab("Tables", "download") = {}

\* C7: every CSV offered in the Tables tab comes right after the dataframe it
\* was made from, and read back it gives that dataframe's column names and
\* then its rows, cell for cell and in order.
C7_CsvRoundTrip ==
  \A k \in InTab("Tables", "download") :
    /\ k > 1
    /\ shown[k - 1].tab = "Tables" /\ shown[k - 1].kind = "dataframe"
    /\ ParseCsv(shown[k].data) = <<shown[k - 1].data.columns>> \o shown[k - 1].data.data

C7_RepeatedHeaderEmptyCell ==
  \E k \in InTab("Tables", "download") :
    LET df == shown[k - 1].data IN
    /\ Len(df.columns) = 2 /\ df.columns[1] = df.columns[2]
    /\ Len(df.data) = 1 /\ df.data[1][1] = <<>>

\* C8: every extraction pass of every run starts with the read cursor at 0
\* and reads all the uploaded bytes.
C8_EveryPassStartsAtZero ==
  \A i \in 1..Len(passes) :
    passes[i].start = 0 /\ passes[i].nbytes = FileSize(doc)

TablesExtracted == pc \in {"tab4", "done"} /\ ~rTables.err

ColumnLabel(n) == <<"C", "o", "l", "u", "m", "n", " ">> \o <<DigitChar[n]>>

EntriesOf(p, k) ==
  {j \in 1..Len(rTables.ret) :
     rTables.ret[j].page = p /\ rTables.ret[j].table_number = k}

\* C9: a detected table with a row gives one dataframe: its first row names
\* the columns exactly when every cell of that row is non-empty after
\* stripping, and then the data are the rows after it; otherwise the columns
\* are "Column 1" .. "Column n" and the data are all the rows.  Either way the
\* cells keep their row and column order.
C9_HeaderOrGenericColumns ==
  TablesExtracted =>
    \A p \in 1..Len(doc.pages) : \A k \in 1..Len(doc.pages[p].tables) :
      LET t == doc.pages[p].tables[k] IN
      t.rows >= 1 =>
        /\ Cardinality(EntriesOf(p, k)) = 1
        /\ \A j \in EntriesOf(p, k) :
             LET df == rTables.ret[j].dataframe IN
             IF \A c \in 1..t.cols : Strip(t.cells[1][c]) # <<>>
               THEN /\ df.columns = t.cells[1]
                    /\ Len(df.data) = t.rows - 1
                    /\ <<df.columns>> \o df.data = t.cells
               ELSE /\ df.columns = [c \in 1..t.cols |-> ColumnLabel(c)]
                    /\ Len(df.data) = t.rows
                    /\ df.data = t.cells

C9_HeaderRowUsed ==
  /\ TablesExtracted
  /\ Len(doc.pages) = 1 /\ Len(doc.pages[1].tables) = 1
  /\ doc.pages[1].tables[1].rows = 2 /\ doc.pages[1].tables[1].cols = 2
  /\ \E j \in 1..Len(rTables.ret) :
       /\ rTables.ret[j].dataframe.columns = doc.pages[1].tables[1].cells[1]
       /\ Len(rTables.ret[j].dataframe.data) = 1

Before(a, b) ==
  a.page < b.page \/ (a.page = b.page /\ a.table_number < b.table_number)

\* C10: the entries of the returned list are, in ascending order of page and
\* then of position on the page, exactly the detected tables that have a row,
\* each numbered by its 1-based position among the tables of its page; the
\* subheaders, labels and file names built from them are pairwise distinct.
C10_TableNumbering ==
  TablesExtracted =>
    LET es == rTables.ret IN
    /\ \A j \in 1..Len(es) :
         /\ es[j].page \in 1..Len(doc.pages)
         /\ es[j].table_number \in 1..Len(doc.pages[es[j].page].tables)
         /\ LET t == doc.pages[es[j].page].tables[es[j].table_number] IN
            /\ t.rows >= 1
            /\ es[j].dataframe.data \in {t.cells, Tail(t.cells)}
    /\ \A p \in 1..Len(doc.pages) : \A k \in 1..Len(doc.pages[p].tables) :
         doc.pages[p].tables[k].rows >= 1 => EntriesOf(p, k) # {}
    /\ \A i, j \in 1..Len(es) : i < j => Before(es[i], es[j])
    /\ \A i, j \in InTab("Tables", "download") :
         i # j => (shown[i].file_name # shown[j].file_name
                   /\ shown[i].label # shown[j].label)
    /\ \A i, j \in InTab("Tables", "subheader") : i # j => shown[i].data # shown[j].data

C10_NumberedPastZeroRowTable ==
  /\ TablesExtracted
  /\ Len(rTables.ret) >= 2
  /\ \E j \in 1..Len(rTables.ret) :
       /\ rTables.ret[j].table_number = 2
       /\ doc.pages[rTables.ret[j].page].tables[1].rows = 0
       /\ rTables.ret[j].dataframe.columns[1] = ColumnLabel(1)

====
